---- MODULE Spec2Model ----
(***************************************************************************)
(* Three singly-linked lists of rust-tmll:                                 *)
(*   first.rs   a stack of i32 over Box links        (variables f_..)      *)
(*   second.rs  a generic stack over Option<Box>,                          *)
(*              with peek and three iterators         (variables s_..)      *)
(*   third.rs   a persistent list over Option<Rc>     (variables t_..)      *)
(* The heap of each file is a function from the allocated node addresses   *)
(* to the node stored there; a Link is None (0) or the address of a node.  *)
(* Option<T> values returned to the caller are None (<<>>) or Some(v)      *)
(* (<<v>>).                                                                *)
(***************************************************************************)
EXTENDS Integers, Sequences, FiniteSets, TLC

\* ---------------------------------------------------------------- bounds
MaxNodes == 3          \* addresses available to first.rs and second.rs
MaxElem == 2           \* element values 1..MaxElem
MaxRcNodes == 2        \* addresses available to third.rs
MaxLists == 2          \* List values of third.rs alive at once

NodeIds == 1..MaxNodes
RcNodeIds == 1..MaxRcNodes
Elems == 1..MaxElem
Handles == 1..MaxLists

VARIABLES
    file,          \* which source file's list the run exercises
    op,            \* the operation that produced the current state
    \* first.rs
    f_head,        \* List.head
    f_node,        \* heap: address -> Node {elem, next}
    f_ret,         \* value returned by the last pop
    f_pc,          \* "live", or the position inside Drop::drop
    f_cur_link,    \* drop's local cur_link
    f_node_box,    \* drop's local node_box (0 when not bound)
    f_released,    \* boxes released by drop so far, with the nesting depth
    f_pushed,      \* elements pushed and not yet popped, newest first
    f_todo,        \* the nodes of the chain when drop was entered
    \* second.rs
    s_head,        \* List.head
    s_node,        \* heap: address -> Node {elem, next}
    s_ret,         \* value returned (or read through the reference
                   \* returned) by the last pop, peek, peek_mut or next
    s_pc,          \* "live", the iterator in use, or the position in drop
    s_ref,         \* node whose elem the reference of peek/peek_mut is to
    s_refmut,      \* whether that reference is a &mut
    iter_next,     \* Iter.next
    itermut_next,  \* IterMut.next
    s_taken,       \* IterMut::next: the result of self.next.take()
    s_refs,        \* nodes whose elem Iter/IterMut yielded a reference to
    s_vals,        \* the values the current traversal yielded
    s_done,        \* the current traversal has returned None
    s_again,       \* next has been called on it after that
    s_cur_link,    \* drop's local cur_link
    s_node_box,    \* drop's local node_box (0 when not bound)
    s_released,    \* boxes released by drop so far, with the nesting depth
    s_abs,         \* the elements the caller put on the stack, top first
    s_written,     \* the caller has written through a &mut reference
    s_lastw,       \* value written through peek_mut, until the top changes
    s_todo,        \* the nodes of the chain when drop was entered
    \* third.rs
    t_list,        \* the List values in scope: handle -> head, or Unbound
    t_node,        \* heap: address -> RcBox {strong, Node {elem, next}}
    t_ret,         \* value read through the reference head() returned,
                   \* while that reference is in use
    t_arg,         \* the handle head() was last called on (0: another call since)
    t_stack,       \* the calls of Rc::drop in progress, outermost first
    t_abs          \* handle -> the elements the list was built to hold

varsFirst == <<f_head, f_node, f_ret, f_pc, f_cur_link, f_node_box,
               f_released, f_pushed, f_todo>>

varsSecond == <<s_head, s_node, s_ret, s_pc, s_ref, s_refmut, iter_next,
                itermut_next, s_taken, s_refs, s_vals, s_done, s_cur_link,
                s_node_box, s_released, s_abs, s_written, s_lastw,
                s_todo, s_again>>

varsThird == <<t_list, t_node, t_ret, t_arg, t_stack, t_abs>>

vars == <<file, op, varsFirst, varsSecond, varsThird>>

\* ------------------------------------------------------- shared notions
None == <<>>
Some(v) == <<v>>

\* Link::Empty / Option::None of a link
Empty == 0

\* The heap without the box at address n.
Dealloc(heap, n) == [x \in (DOMAIN heap) \ {n} |-> heap[x]]

\* The lowest address not in use (addresses are only ever compared for
\* equality, so which free address the allocator returns is unobservable).
Fresh(used, all) == CHOOSE n \in all \ used : \A m \in all \ used : n <= m

\* The elements of the chain starting at link l, first to last.
RECURSIVE Chain(_, _)
Chain(l, heap) ==
    IF l = Empty THEN <<>> ELSE <<heap[l].elem>> \o Chain(heap[l].next, heap)

\* The addresses of the chain starting at link l, first to last.
RECURSIVE ChainNodes(_, _)
ChainNodes(l, heap) ==
    IF l = Empty THEN <<>> ELSE <<l>> \o ChainNodes(heap[l].next, heap)

Range(s) == {s[i] : i \in 1..Len(s)}

\* ======================================================== first.rs =====

\* Box<Node>'s drop glue: the fields of the node are dropped (the next link,
\* when it still holds a box, by a nested call), then the box is freed.
\* Gives the heap afterwards and the boxes released, each with the depth of
\* the call that released it.
RECURSIVE First_DropBox(_, _, _)
First_DropBox(n, heap, depth) ==
    LET inner == IF heap[n].next = Empty
                 THEN [heap |-> heap, rel |-> <<>>]
                 ELSE First_DropBox(heap[n].next, heap, depth + 1)
    IN [heap |-> Dealloc(inner.heap, n),
        rel  |-> inner.rel \o <<[node |-> n, depth |-> depth]>>]

\* A faulty push: the new node does not take over the old chain.
First_push_bug(elem) ==
    LET n == Fresh(DOMAIN f_node, NodeIds)
    IN /\ f_node' = (n :> [elem |-> elem, next |-> Empty]) @@ f_node
       /\ f_head' = n

\* List::push
First_push(elem) ==
    LET n == Fresh(DOMAIN f_node, NodeIds)
        taken == f_head          \* mem::replace(&mut self.head, Link::Empty)
    IN /\ f_node' = (n :> [elem |-> elem, next |-> taken]) @@ f_node
       /\ f_head' = n

\* A faulty pop: a default value instead of None on the empty list.
First_pop_bug ==
    IF f_head = Empty
    THEN /\ f_ret' = Some(0)
         /\ UNCHANGED <<f_head, f_node>>
    ELSE /\ f_head' = f_node[f_head].next
         /\ f_ret' = Some(f_node[f_head].elem)
         /\ f_node' = Dealloc(f_node, f_head)

\* List::pop
First_pop ==
    LET taken == f_head          \* mem::replace(&mut self.head, Link::Empty)
    IN IF taken = Empty
       THEN /\ f_ret' = None
            /\ f_head' = Empty
            /\ UNCHANGED f_node
       ELSE /\ f_head' = f_node[taken].next
            /\ f_ret' = Some(f_node[taken].elem)
            /\ f_node' = Dealloc(f_node, taken)

\* Drop::drop, line 72: cur_link takes the head.
First_drop_enter ==
    /\ f_cur_link' = f_head
    /\ f_head' = Empty

\* line 74: while let Link::More(mut node_box) = cur_link
First_drop_while ==
    IF f_cur_link = Empty
    THEN /\ f_pc' = "dropped"
         /\ UNCHANGED <<f_cur_link, f_node_box>>
    ELSE /\ f_node_box' = f_cur_link
         /\ f_cur_link' = Empty            \* moved out of
         /\ f_pc' = "body"

\* A faulty loop body: the link is read but left in the node.
First_drop_body_bug ==
    /\ f_cur_link' = f_node[f_node_box].next
    /\ UNCHANGED f_node

\* line 75: cur_link = mem::replace(&mut node_box.next, Link::Empty)
First_drop_body ==
    /\ f_cur_link' = f_node[f_node_box].next
    /\ f_node' = [f_node EXCEPT ![f_node_box].next = Empty]

\* line 80: node_box goes out of scope and is dropped.
First_drop_scope_end ==
    LET r == First_DropBox(f_node_box, f_node, 1)
    IN /\ f_node' = r.heap
       /\ f_released' = f_released \o r.rel
       /\ f_node_box' = Empty

\* ---- the caller of first.rs

FirstPush(e) ==
    /\ file = "first" /\ f_pc = "live"
    /\ Cardinality(DOMAIN f_node) < MaxNodes
    /\ First_push(e)
    /\ f_pushed' = <<e>> \o f_pushed
    /\ op' = "push"
    /\ UNCHANGED <<file, f_ret, f_pc, f_cur_link, f_node_box, f_released,
                   f_todo>>
    /\ UNCHANGED <<varsSecond, varsThird>>

FirstPop ==
    /\ file = "first" /\ f_pc = "live"
    /\ First_pop
    /\ f_pushed' = IF f_pushed = <<>> THEN <<>> ELSE Tail(f_pushed)
    /\ op' = "pop"
    /\ UNCHANGED <<file, f_pc, f_cur_link, f_node_box, f_released, f_todo>>
    /\ UNCHANGED <<varsSecond, varsThird>>

FirstDropEnter ==
    /\ file = "first" /\ f_pc = "live"
    /\ First_drop_enter
    /\ f_pc' = "while"
    /\ f_todo' = ChainNodes(f_head, f_node)
    /\ op' = "drop"
    /\ UNCHANGED <<file, f_node, f_ret, f_node_box, f_released, f_pushed>>
    /\ UNCHANGED <<varsSecond, varsThird>>

FirstDropWhile ==
    /\ file = "first" /\ f_pc = "while"
    /\ First_drop_while
    /\ op' = "drop"
    /\ UNCHANGED <<file, f_head, f_node, f_ret, f_released, f_pushed, f_todo>>
    /\ UNCHANGED <<varsSecond, varsThird>>

FirstDropBody ==
    /\ file = "first" /\ f_pc = "body"
    /\ First_drop_body
    /\ f_pc' = "scope_end"
    /\ op' = "drop"
    /\ UNCHANGED <<file, f_head, f_ret, f_node_box, f_released, f_pushed,
                   f_todo>>
    /\ UNCHANGED <<varsSecond, varsThird>>

FirstDropScopeEnd ==
    /\ file = "first" /\ f_pc = "scope_end"
    /\ First_drop_scope_end
    /\ f_pc' = "while"
    /\ op' = "drop"
    /\ UNCHANGED <<file, f_head, f_ret, f_cur_link, f_pushed, f_todo>>
    /\ UNCHANGED <<varsSecond, varsThird>>

InitFirst ==
    /\ f_head = Empty
    /\ f_node = <<>>
    /\ f_ret = None
    /\ f_pc = "live"
    /\ f_cur_link = Empty
    /\ f_node_box = Empty
    /\ f_released = <<>>
    /\ f_pushed = <<>>
    /\ f_todo = <<>>

NextFirst ==
    \/ \E e \in Elems : FirstPush(e)
    \/ FirstPop
    \/ FirstDropEnter
    \/ FirstDropWhile
    \/ FirstDropBody
    \/ FirstDropScopeEnd

\* ======================================================= second.rs =====

\* Box<Node<T>>'s drop glue, as for first.rs.
RECURSIVE Second_DropBox(_, _, _)
Second_DropBox(n, heap, depth) ==
    LET inner == IF heap[n].next = Empty
                 THEN [heap |-> heap, rel |-> <<>>]
                 ELSE Second_DropBox(heap[n].next, heap, depth + 1)
    IN [heap |-> Dealloc(inner.heap, n),
        rel  |-> inner.rel \o <<[node |-> n, depth |-> depth]>>]

\* List::push
Second_push(elem) ==
    LET n == Fresh(DOMAIN s_node, NodeIds)
        taken == s_head                    \* self.head.take()
    IN /\ s_node' = (n :> [elem |-> elem, next |-> taken]) @@ s_node
       /\ s_head' = n

\* List::pop
Second_pop ==
    LET taken == s_head                    \* self.head.take()
    IN IF taken = Empty
       THEN /\ s_ret' = None
            /\ s_head' = Empty
            /\ UNCHANGED s_node
       ELSE /\ s_head' = s_node[taken].next
            /\ s_ret' = Some(s_node[taken].elem)
            /\ s_node' = Dealloc(s_node, taken)

\* List::peek: a reference to the elem of the head node, if any.
Second_peek ==
    /\ s_ref' = s_head
    /\ s_refmut' = FALSE
    /\ s_ret' = IF s_head = Empty THEN None ELSE Some(s_node[s_head].elem)

\* A faulty peek_mut: the reference is to the node after the head.
Second_peek_mut_bug ==
    /\ s_ref' = IF s_head = Empty \/ s_node[s_head].next = Empty
               THEN s_head ELSE s_node[s_head].next
    /\ s_refmut' = (s_head # Empty)
    /\ s_ret' = IF s_head = Empty THEN None ELSE Some(s_node[s_head].elem)

\* List::peek_mut
Second_peek_mut ==
    /\ s_ref' = s_head
    /\ s_refmut' = (s_head # Empty)
    /\ s_ret' = IF s_head = Empty THEN None ELSE Some(s_node[s_head].elem)

\* *value = v through the &mut T that peek_mut returned
Second_write(v) ==
    s_node' = [s_node EXCEPT ![s_ref].elem = v]

\* List::iter
Second_iter ==
    iter_next' = s_head                    \* self.head.as_deref()

\* List::iter_mut
Second_iter_mut ==
    itermut_next' = s_head                 \* self.head.as_deref_mut()

\* A faulty Iter::next: the cursor does not advance.
Iter_next_stay ==
    IF iter_next = Empty
    THEN /\ s_ret' = None
         /\ UNCHANGED <<iter_next, s_refs, s_vals>>
    ELSE /\ iter_next' = iter_next
         /\ s_ret' = Some(s_node[iter_next].elem)
         /\ s_refs' = Append(s_refs, iter_next)
         /\ s_vals' = Append(s_vals, s_node[iter_next].elem)

\* A faulty Iter::next: at the end the cursor goes back to the head.
Iter_next_wrap ==
    IF iter_next = Empty
    THEN /\ s_ret' = None
         /\ iter_next' = s_head
         /\ UNCHANGED <<s_refs, s_vals>>
    ELSE /\ iter_next' = s_node[iter_next].next
         /\ s_ret' = Some(s_node[iter_next].elem)
         /\ s_refs' = Append(s_refs, iter_next)
         /\ s_vals' = Append(s_vals, s_node[iter_next].elem)

\* Iter::next
Iter_next ==
    IF iter_next = Empty
    THEN /\ s_ret' = None
         /\ UNCHANGED <<iter_next, s_refs, s_vals>>
    ELSE /\ iter_next' = s_node[iter_next].next
         /\ s_ret' = Some(s_node[iter_next].elem)
         /\ s_refs' = Append(s_refs, iter_next)
         /\ s_vals' = Append(s_vals, s_node[iter_next].elem)

\* A faulty IterMut::next: the cursor is copied, not taken.
IterMut_next_copy ==
    /\ s_taken' = itermut_next
    /\ UNCHANGED itermut_next

\* IterMut::next, self.next.take()
IterMut_next_take ==
    /\ s_taken' = itermut_next
    /\ itermut_next' = Empty

\* IterMut::next, .map(|node| { self.next = ...; &mut node.elem })
IterMut_next_map ==
    /\ s_taken' = Empty
    /\ IF s_taken = Empty
       THEN /\ s_ret' = None
            /\ UNCHANGED <<itermut_next, s_refs, s_vals>>
       ELSE /\ itermut_next' = s_node[s_taken].next
            /\ s_ret' = Some(s_node[s_taken].elem)
            /\ s_refs' = Append(s_refs, s_taken)
            /\ s_vals' = Append(s_vals, s_node[s_taken].elem)

\* *r = v through the i-th &mut T that IterMut yielded
IterMut_write(i, v) ==
    s_node' = [s_node EXCEPT ![s_refs[i]].elem = v]

\* IntoIter::next
IntoIter_next ==
    /\ Second_pop                          \* self.0.pop()
    /\ s_vals' = IF s_head = Empty THEN s_vals
                 ELSE Append(s_vals, s_node[s_head].elem)

\* Drop::drop, line 117
Second_drop_enter ==
    /\ s_cur_link' = s_head                \* self.head.take()
    /\ s_head' = Empty

\* line 119: while let Some(mut node_box) = cur_link
Second_drop_while ==
    IF s_cur_link = Empty
    THEN /\ s_pc' = "dropped"
         /\ UNCHANGED <<s_cur_link, s_node_box>>
    ELSE /\ s_node_box' = s_cur_link
         /\ s_cur_link' = Empty            \* moved out of
         /\ s_pc' = "body"

\* line 120: cur_link = node_box.next.take()
Second_drop_body ==
    /\ s_cur_link' = s_node[s_node_box].next
    /\ s_node' = [s_node EXCEPT ![s_node_box].next = Empty]

\* line 121: node_box goes out of scope and is dropped.
Second_drop_scope_end ==
    LET r == Second_DropBox(s_node_box, s_node, 1)
    IN /\ s_node' = r.heap
       /\ s_released' = s_released \o r.rel
       /\ s_node_box' = Empty

\* ---- the caller of second.rs

\* A call on the list ends the borrow peek/peek_mut handed out.
NoRef == s_ref' = Empty /\ s_refmut' = FALSE

SecondPush(e) ==
    /\ file = "second" /\ s_pc = "live"
    /\ Cardinality(DOMAIN s_node) < MaxNodes
    /\ Second_push(e)
    /\ NoRef
    /\ s_abs' = <<e>> \o s_abs
    /\ s_lastw' = None
    /\ op' = "push"
    /\ UNCHANGED <<s_todo, s_again>>
    /\ UNCHANGED <<file, s_ret, s_pc, iter_next, itermut_next, s_taken, s_refs,
                   s_vals, s_done, s_cur_link, s_node_box, s_released,
                   s_written>>
    /\ UNCHANGED <<varsFirst, varsThird>>

SecondPop ==
    /\ file = "second" /\ s_pc = "live"
    /\ Second_pop
    /\ NoRef
    /\ s_abs' = IF s_abs = <<>> THEN <<>> ELSE Tail(s_abs)
    /\ s_lastw' = None
    /\ op' = "pop"
    /\ UNCHANGED <<s_todo, s_again>>
    /\ UNCHANGED <<file, s_pc, iter_next, itermut_next, s_taken, s_refs,
                   s_vals, s_done, s_cur_link, s_node_box, s_released,
                   s_written>>
    /\ UNCHANGED <<varsFirst, varsThird>>

SecondPeek ==
    /\ file = "second" /\ s_pc = "live"
    /\ Second_peek
    /\ op' = "peek"
    /\ UNCHANGED <<s_todo, s_again>>
    /\ UNCHANGED <<file, s_head, s_node, s_pc, iter_next, itermut_next,
                   s_taken, s_refs, s_vals, s_done, s_cur_link, s_node_box,
                   s_released, s_abs, s_written, s_lastw>>
    /\ UNCHANGED <<varsFirst, varsThird>>

SecondPeekMut ==
    /\ file = "second" /\ s_pc = "live"
    /\ Second_peek_mut
    /\ op' = "peek_mut"
    /\ UNCHANGED <<s_todo, s_again>>
    /\ UNCHANGED <<file, s_head, s_node, s_pc, iter_next, itermut_next,
                   s_taken, s_refs, s_vals, s_done, s_cur_link, s_node_box,
                   s_released, s_abs, s_written, s_lastw>>
    /\ UNCHANGED <<varsFirst, varsThird>>

SecondWrite(v) ==
    /\ file = "second" /\ s_pc = "live"
    /\ s_refmut /\ s_ref # Empty
    /\ Second_write(v)
    /\ s_abs' = [s_abs EXCEPT ![1] = v]
    /\ s_written' = TRUE
    /\ s_lastw' = Some(v)
    /\ op' = "write"
    /\ UNCHANGED <<s_todo, s_again>>
    /\ UNCHANGED <<file, s_head, s_ret, s_pc, s_ref, s_refmut, iter_next,
                   itermut_next, s_taken, s_refs, s_vals, s_done, s_cur_link,
                   s_node_box, s_released>>
    /\ UNCHANGED <<varsFirst, varsThird>>

\* A traversal starts with nothing yielded.
StartTraversal(pc) ==
    /\ s_pc' = pc
    /\ NoRef
    /\ s_refs' = <<>>
    /\ s_vals' = <<>>
    /\ s_done' = FALSE
    /\ s_again' = FALSE
    /\ s_lastw' = None

SecondIter ==
    /\ file = "second" /\ s_pc = "live"
    /\ Second_iter
    /\ StartTraversal("iter")
    /\ op' = "iter"
    /\ UNCHANGED s_todo
    /\ UNCHANGED <<file, s_head, s_node, s_ret, itermut_next, s_taken,
                   s_cur_link, s_node_box, s_released, s_abs, s_written>>
    /\ UNCHANGED <<varsFirst, varsThird>>

SecondIterNext ==
    /\ file = "second" /\ s_pc = "iter"
    /\ Iter_next
    /\ s_done' = (s_done \/ s_ret' = None)
    /\ s_again' = (s_again \/ s_done)
    /\ op' = "next"
    /\ UNCHANGED s_todo
    /\ UNCHANGED <<file, s_head, s_node, s_pc, s_ref, s_refmut, itermut_next,
                   s_taken, s_cur_link, s_node_box, s_released, s_abs,
                   s_written, s_lastw>>
    /\ UNCHANGED <<varsFirst, varsThird>>

SecondIterMut ==
    /\ file = "second" /\ s_pc = "live"
    /\ Second_iter_mut
    /\ StartTraversal("iter_mut")
    /\ op' = "iter_mut"
    /\ UNCHANGED s_todo
    /\ UNCHANGED <<file, s_head, s_node, s_ret, iter_next, s_taken,
                   s_cur_link, s_node_box, s_released, s_abs, s_written>>
    /\ UNCHANGED <<varsFirst, varsThird>>

SecondIterMutNextTake ==
    /\ file = "second" /\ s_pc = "iter_mut"
    /\ IterMut_next_take
    /\ s_pc' = "iter_mut_map"
    /\ op' = "next_take"
    /\ UNCHANGED <<s_todo, s_again>>
    /\ UNCHANGED <<file, s_head, s_node, s_ret, s_ref, s_refmut, iter_next,
                   s_refs, s_vals, s_done, s_cur_link, s_node_box, s_released,
                   s_abs, s_written, s_lastw>>
    /\ UNCHANGED <<varsFirst, varsThird>>

SecondIterMutNextMap ==
    /\ file = "second" /\ s_pc = "iter_mut_map"
    /\ IterMut_next_map
    /\ s_pc' = "iter_mut"
    /\ s_done' = (s_done \/ s_ret' = None)
    /\ s_again' = (s_again \/ s_done)
    /\ op' = "next"
    /\ UNCHANGED s_todo
    /\ UNCHANGED <<file, s_head, s_node, s_ref, s_refmut, iter_next,
                   s_cur_link, s_node_box, s_released, s_abs, s_written,
                   s_lastw>>
    /\ UNCHANGED <<varsFirst, varsThird>>

SecondIterMutWrite(i, v) ==
    /\ file = "second" /\ s_pc = "iter_mut"
    /\ i \in 1..Len(s_refs)
    /\ IterMut_write(i, v)
    /\ s_abs' = [s_abs EXCEPT ![i] = v]
    /\ s_written' = TRUE
    /\ op' = "write_yielded"
    /\ UNCHANGED <<s_todo, s_again>>
    /\ UNCHANGED <<file, s_head, s_ret, s_pc, s_ref, s_refmut, iter_next,
                   itermut_next, s_taken, s_refs, s_vals, s_done, s_cur_link,
                   s_node_box, s_released, s_lastw>>
    /\ UNCHANGED <<varsFirst, varsThird>>

\* The Iter or IterMut (and every reference it yielded) goes out of scope.
SecondIterEnd ==
    /\ file = "second" /\ s_pc \in {"iter", "iter_mut"}
    /\ s_pc' = "live"
    /\ iter_next' = Empty
    /\ itermut_next' = Empty
    /\ s_refs' = <<>>
    /\ s_vals' = <<>>
    /\ s_done' = FALSE
    /\ s_again' = FALSE
    /\ op' = "iter_end"
    /\ UNCHANGED s_todo
    /\ UNCHANGED <<file, s_head, s_node, s_ret, s_ref, s_refmut, s_taken,
                   s_cur_link, s_node_box, s_released, s_abs, s_written,
                   s_lastw>>
    /\ UNCHANGED <<varsFirst, varsThird>>

SecondIntoIter ==
    /\ file = "second" /\ s_pc = "live"
    /\ StartTraversal("into_iter")         \* IntoIter(self)
    /\ op' = "into_iter"
    /\ UNCHANGED s_todo
    /\ UNCHANGED <<file, s_head, s_node, s_ret, iter_next, itermut_next,
                   s_taken, s_cur_link, s_node_box, s_released, s_abs,
                   s_written>>
    /\ UNCHANGED <<varsFirst, varsThird>>

SecondIntoIterNext ==
    /\ file = "second" /\ s_pc = "into_iter"
    /\ IntoIter_next
    /\ s_done' = (s_done \/ s_ret' = None)
    /\ s_again' = (s_again \/ s_done)
    /\ op' = "next"
    /\ UNCHANGED s_todo
    /\ UNCHANGED <<file, s_pc, s_ref, s_refmut, iter_next, itermut_next,
                   s_taken, s_refs, s_cur_link, s_node_box, s_released, s_abs,
                   s_written, s_lastw>>
    /\ UNCHANGED <<varsFirst, varsThird>>

\* The List (or the IntoIter that wraps it) goes out of scope.
SecondDropEnter ==
    /\ file = "second" /\ s_pc \in {"live", "into_iter"}
    /\ Second_drop_enter
    /\ s_pc' = "while"
    /\ NoRef
    /\ UNCHANGED s_again
    /\ s_todo' = ChainNodes(s_head, s_node)
    /\ op' = "drop"
    /\ UNCHANGED <<file, s_node, s_ret, iter_next, itermut_next, s_taken,
                   s_refs, s_vals, s_done, s_node_box, s_released, s_abs,
                   s_written, s_lastw>>
    /\ UNCHANGED <<varsFirst, varsThird>>

SecondDropWhile ==
    /\ file = "second" /\ s_pc = "while"
    /\ Second_drop_while
    /\ op' = "drop"
    /\ UNCHANGED <<s_todo, s_again>>
    /\ UNCHANGED <<file, s_head, s_node, s_ret, s_ref, s_refmut, iter_next,
                   itermut_next, s_taken, s_refs, s_vals, s_done, s_released,
                   s_abs, s_written, s_lastw>>
    /\ UNCHANGED <<varsFirst, varsThird>>

SecondDropBody ==
    /\ file = "second" /\ s_pc = "body"
    /\ Second_drop_body
    /\ s_pc' = "scope_end"
    /\ op' = "drop"
    /\ UNCHANGED <<s_todo, s_again>>
    /\ UNCHANGED <<file, s_head, s_ret, s_ref, s_refmut, iter_next,
                   itermut_next, s_taken, s_refs, s_vals, s_done, s_node_box,
                   s_released, s_abs, s_written, s_lastw>>
    /\ UNCHANGED <<varsFirst, varsThird>>

SecondDropScopeEnd ==
    /\ file = "second" /\ s_pc = "scope_end"
    /\ Second_drop_scope_end
    /\ s_pc' = "while"
    /\ op' = "drop"
    /\ UNCHANGED <<s_todo, s_again>>
    /\ UNCHANGED <<file, s_head, s_ret, s_ref, s_refmut, iter_next,
                   itermut_next, s_taken, s_refs, s_vals, s_done, s_cur_link,
                   s_abs, s_written, s_lastw>>
    /\ UNCHANGED <<varsFirst, varsThird>>

InitSecond ==
    /\ s_head = Empty
    /\ s_node = <<>>
    /\ s_ret = None
    /\ s_pc = "live"
    /\ s_ref = Empty
    /\ s_refmut = FALSE
    /\ iter_next = Empty
    /\ itermut_next = Empty
    /\ s_taken = Empty
    /\ s_refs = <<>>
    /\ s_vals = <<>>
    /\ s_done = FALSE
    /\ s_cur_link = Empty
    /\ s_node_box = Empty
    /\ s_released = <<>>
    /\ s_abs = <<>>
    /\ s_written = FALSE
    /\ s_lastw = None
    /\ s_todo = <<>>
    /\ s_again = FALSE

NextSecond ==
    \/ \E e \in Elems : SecondPush(e)
    \/ SecondPop
    \/ SecondPeek
    \/ SecondPeekMut
    \/ \E v \in Elems : SecondWrite(v)
    \/ SecondIter
    \/ SecondIterNext
    \/ SecondIterMut
    \/ SecondIterMutNextTake
    \/ SecondIterMutNextMap
    \/ \E i \in 1..MaxNodes, v \in Elems : SecondIterMutWrite(i, v)
    \/ SecondIterEnd
    \/ SecondIntoIter
    \/ SecondIntoIterNext
    \/ SecondDropEnter
    \/ SecondDropWhile
    \/ SecondDropBody
    \/ SecondDropScopeEnd

\* ======================================================== third.rs =====

\* A handle that holds no List value.
Unbound == -1

Bound(h) == t_list[h] # Unbound

\* A faulty clone: the strong count stays as it is.
RcClone_bug(l, heap) == heap

\* Option<Rc<Node<T>>>::clone: the strong count of the node goes up by one.
RcClone(l, heap) ==
    IF l = Empty THEN heap
    ELSE [heap EXCEPT ![l].strong = heap[l].strong + 1]

\* List::new
Third_new == Empty

\* List::prepend: the head of the returned list and the heap afterwards.
Third_prepend(self_head, elem, heap) ==
    LET n == Fresh(DOMAIN heap, RcNodeIds)
        shared == RcClone(self_head, heap)             \* self.head.clone()
    IN [head |-> n,
        heap |-> (n :> [elem |-> elem, next |-> self_head, strong |-> 1])
                 @@ shared]

\* List::head
Third_head(self_head, heap) ==
    IF self_head = Empty THEN None ELSE Some(heap[self_head].elem)

\* A faulty tail: the returned list starts at the same node.
Third_tail_bug(self_head, heap) ==
    [head |-> self_head, heap |-> IF self_head = Empty THEN heap
        ELSE [heap EXCEPT ![self_head].strong = heap[self_head].strong + 1]]

\* List::tail: the head of the returned list and the heap afterwards.
Third_tail(self_head, heap) ==
    LET l == IF self_head = Empty THEN Empty
             ELSE heap[self_head].next                 \* and_then(|node| ..)
    IN [head |-> l, heap |-> RcClone(l, heap)]         \* node.next.clone()

\* A List goes out of scope: List has no Drop impl, so its head field is
\* dropped; a Some(rc) head calls Rc::drop.
Third_drop_list(self_head) ==
    IF self_head = Empty THEN <<>>
    ELSE <<[node |-> self_head, pc |-> "dec"]>>

\* Rc::drop of the innermost call, first half: the strong count goes down;
\* at zero the Node is dropped in place, and Node has no Drop impl, so its
\* next field is dropped by a nested Rc::drop when it is Some.
Rc_drop_dec ==
    LET top == t_stack[Len(t_stack)]
        n == top.node
        left == t_node[n].strong - 1
        rest == SubSeq(t_stack, 1, Len(t_stack) - 1)
    IN /\ t_node' = [t_node EXCEPT ![n].strong = left]
       /\ t_stack' =
            IF left # 0 THEN rest
            ELSE rest \o <<[node |-> n, pc |-> "dealloc"]>>
                      \o Third_drop_list(t_node[n].next)

\* Rc::drop of the innermost call, second half: the allocation is freed.
Rc_drop_dealloc ==
    LET n == t_stack[Len(t_stack)].node
    IN /\ t_node' = Dealloc(t_node, n)
       /\ t_stack' = SubSeq(t_stack, 1, Len(t_stack) - 1)

\* ---- the caller of third.rs

FreshHandle == Fresh({h \in Handles : Bound(h)}, Handles)

Idle == file = "third" /\ t_stack = <<>>

ThirdNew ==
    /\ Idle
    /\ \E h \in Handles : ~Bound(h)
    /\ t_list' = [t_list EXCEPT ![FreshHandle] = Third_new]
    /\ t_abs' = [t_abs EXCEPT ![FreshHandle] = <<>>]
    /\ t_arg' = 0 /\ t_ret' = None
    /\ op' = "new"
    /\ UNCHANGED <<file, t_node, t_stack>>
    /\ UNCHANGED <<varsFirst, varsSecond>>

ThirdPrepend(a, e) ==
    /\ Idle
    /\ Bound(a)
    /\ \E h \in Handles : ~Bound(h)
    /\ Cardinality(DOMAIN t_node) < MaxRcNodes
    /\ LET r == Third_prepend(t_list[a], e, t_node)
       IN /\ t_list' = [t_list EXCEPT ![FreshHandle] = r.head]
          /\ t_node' = r.heap
    /\ t_abs' = [t_abs EXCEPT ![FreshHandle] = <<e>> \o t_abs[a]]
    /\ t_arg' = 0 /\ t_ret' = None
    /\ op' = "prepend"
    /\ UNCHANGED <<file, t_stack>>
    /\ UNCHANGED <<varsFirst, varsSecond>>

ThirdHead(a) ==
    /\ Idle
    /\ Bound(a)
    /\ t_ret' = Third_head(t_list[a], t_node)
    /\ t_arg' = a
    /\ op' = "head"
    /\ UNCHANGED <<file, t_list, t_node, t_stack, t_abs>>
    /\ UNCHANGED <<varsFirst, varsSecond>>

ThirdTail(a) ==
    /\ Idle
    /\ Bound(a)
    /\ \E h \in Handles : ~Bound(h)
    /\ LET r == Third_tail(t_list[a], t_node)
       IN /\ t_list' = [t_list EXCEPT ![FreshHandle] = r.head]
          /\ t_node' = r.heap
    /\ t_abs' = [t_abs EXCEPT ![FreshHandle] =
                    IF t_abs[a] = <<>> THEN <<>> ELSE Tail(t_abs[a])]
    /\ t_arg' = 0 /\ t_ret' = None
    /\ op' = "tail"
    /\ UNCHANGED <<file, t_stack>>
    /\ UNCHANGED <<varsFirst, varsSecond>>

ThirdDropList(a) ==
    /\ Idle
    /\ Bound(a)
    /\ t_stack' = Third_drop_list(t_list[a])
    /\ t_list' = [t_list EXCEPT ![a] = Unbound]
    /\ t_abs' = [t_abs EXCEPT ![a] = <<>>]
    /\ t_arg' = 0 /\ t_ret' = None
    /\ op' = "drop"
    /\ UNCHANGED <<file, t_node>>
    /\ UNCHANGED <<varsFirst, varsSecond>>

ThirdRcDropDec ==
    /\ file = "third"
    /\ t_stack # <<>> /\ t_stack[Len(t_stack)].pc = "dec"
    /\ Rc_drop_dec
    /\ op' = "rc_drop"
    /\ UNCHANGED <<file, t_list, t_ret, t_arg, t_abs>>
    /\ UNCHANGED <<varsFirst, varsSecond>>

ThirdRcDropDealloc ==
    /\ file = "third"
    /\ t_stack # <<>> /\ t_stack[Len(t_stack)].pc = "dealloc"
    /\ Rc_drop_dealloc
    /\ op' = "rc_drop"
    /\ UNCHANGED <<file, t_list, t_ret, t_arg, t_abs>>
    /\ UNCHANGED <<varsFirst, varsSecond>>

InitThird ==
    /\ t_list = [h \in Handles |-> Unbound]
    /\ t_node = <<>>
    /\ t_ret = None
    /\ t_arg = 0
    /\ t_stack = <<>>
    /\ t_abs = [h \in Handles |-> <<>>]

NextThird ==
    \/ ThirdNew
    \/ \E a \in Handles, e \in Elems : ThirdPrepend(a, e)
    \/ \E a \in Handles : ThirdHead(a)
    \/ \E a \in Handles : ThirdTail(a)
    \/ \E a \in Handles : ThirdDropList(a)
    \/ ThirdRcDropDec
    \/ ThirdRcDropDealloc

\* ============================================================ system ===

Init ==
    /\ file \in {"first", "second", "third"}
    /\ op = "new"
    /\ InitFirst
    /\ InitSecond
    /\ InitThird

Next ==
    \/ NextFirst
    \/ NextSecond
    \/ NextThird

Spec == Init /\ [][Next]_vars

\* ============================================================ claims ===

Top(stk) == IF stk = <<>> THEN None ELSE Some(Head(stk))

Pop(stk) == IF stk = <<>> THEN <<>> ELSE Tail(stk)

Distinct(seq) == \A i, j \in 1..Len(seq) : seq[i] = seq[j] => i = j

IsPrefix(p, seq) == Len(p) <= Len(seq) /\ p = SubSeq(seq, 1, Len(p))

\* C1: in first.rs and in second.rs, whatever the interleaving of push and
\* pop since new(), the chain holds the elements pushed and not yet popped,
\* newest first; pop returns the newest of them (None when there is none)
\* and removes that one node and no other.
C1_LIFO ==
    [][ /\ (file = "first" /\ f_pc' = "live") =>
             /\ Chain(f_head', f_node') = f_pushed'
             /\ Cardinality(DOMAIN f_node') = Len(f_pushed')
             /\ op' = "pop" =>
                  /\ f_ret' = Top(f_pushed)
                  /\ Chain(f_head', f_node') = Pop(f_pushed)
        /\ (file = "second" /\ s_pc' = "live" /\ ~s_written') =>
             /\ Chain(s_head', s_node') = s_abs'
             /\ Cardinality(DOMAIN s_node') = Len(s_abs')
             /\ op' = "pop" =>
                  /\ s_ret' = Top(s_abs)
                  /\ Chain(s_head', s_node') = Pop(s_abs)
      ]_vars

\* Pushes of 1, 2, 1 and a pop in between: the pop that returned 2 left 1.
C1_Witness ==
    \/ file = "first" /\ op = "pop" /\ f_ret = Some(2) /\ f_pushed = <<1>>
    \/ file = "second" /\ op = "pop" /\ s_ret = Some(2) /\ s_abs = <<1>>
         /\ ~s_written

\* What drop has released so far is a prefix of the chain it was given, each
\* box released once, by the loop itself (depth 1) and not by the drop of
\* its predecessor, with its link detached before its release; at the end
\* the head is None and no box of the chain is allocated.
DropIterative(pc, head, heap, node_box, released, todo) ==
    pc \in {"while", "body", "scope_end", "dropped"} =>
        /\ head = Empty
        /\ \A i \in 1..Len(released) : released[i].depth = 1
        /\ IsPrefix([i \in 1..Len(released) |-> released[i].node], todo)
        /\ Distinct(todo)
        /\ \A i \in 1..Len(released) : released[i].node \notin DOMAIN heap
        /\ pc = "scope_end" => heap[node_box].next = Empty
        /\ pc = "dropped" => Len(released) = Len(todo) /\ heap = <<>>

\* C6: the destructors of first.rs and second.rs release the chain by a
\* loop: each node once, in chain order, its link detached before it is
\* released, no release nested in another; afterwards the head is None and
\* no node stays allocated.
C6_DropIterative ==
    /\ file = "first" =>
         DropIterative(f_pc, f_head, f_node, f_node_box, f_released, f_todo)
    /\ file = "second" =>
         DropIterative(s_pc, s_head, s_node, s_node_box, s_released, s_todo)

\* A chain of MaxNodes nodes has been torn down.
C6_Witness ==
    \/ file = "first" /\ f_pc = "dropped" /\ Len(f_released) = MaxNodes
    \/ file = "second" /\ s_pc = "dropped" /\ Len(s_released) = MaxNodes

\* C8: on an empty structure pop (first.rs, second.rs), peek and peek_mut
\* (second.rs) and head (third.rs) return None and leave the structure as
\* new() made it, however often they are called.
C8_EmptySafe ==
    [][ /\ (file = "first" /\ f_head = Empty /\ op' = "pop") =>
             f_ret' = None /\ f_head' = Empty /\ f_node' = f_node
        /\ (file = "second" /\ s_head = Empty
              /\ op' \in {"pop", "peek", "peek_mut"}) =>
             /\ s_ret' = None /\ s_head' = Empty /\ s_node' = s_node
             /\ s_ref' = Empty /\ ~s_refmut'
        /\ (file = "third" /\ op' = "head" /\ t_list[t_arg'] = Empty) =>
             t_ret' = None /\ t_list' = t_list /\ t_node' = t_node
      ]_vars

\* A pop, peek, peek_mut or head on the empty structure has returned None.
C8_Witness ==
    \/ file = "first" /\ op = "pop" /\ f_ret = None /\ f_head = Empty
    \/ file = "second" /\ op \in {"pop", "peek", "peek_mut"}
         /\ s_ret = None /\ s_head = Empty
    \/ file = "third" /\ op = "head" /\ t_ret = None

\* The elements read now through the references of refs.
Deref(refs, heap) == [i \in 1..Len(refs) |-> heap[refs[i]].elem]

\* C5: on a stack holding s_abs, top first, iter() and iter_mut() yield
\* references to its nodes in chain order, every one before None and none
\* after, and the traversal itself leaves the chain as it was; into_iter()
\* yields the same elements by value in the same order, and when it has
\* returned None the stack it wraps is empty.
C5_Iterators ==
    /\ (file = "second" /\ s_pc \in {"iter", "iter_mut", "iter_mut_map"}) =>
         /\ Chain(s_head, s_node) = s_abs
         /\ IsPrefix(s_refs, ChainNodes(s_head, s_node))
         /\ Deref(s_refs, s_node) = SubSeq(s_abs, 1, Len(s_refs))
         /\ s_pc = "iter" => IsPrefix(s_vals, s_abs)
         /\ (op = "next" /\ s_ret # None) =>
              s_ret = Some(s_abs[Len(s_refs)])
         /\ (op = "next" /\ s_ret = None) => Len(s_refs) = Len(s_abs)
         /\ s_done => Len(s_refs) = Len(s_abs)
    /\ (file = "second" /\ s_pc = "into_iter") =>
         /\ s_vals \o Chain(s_head, s_node) = s_abs
         /\ (op = "next" /\ s_ret # None) =>
              s_ret = Some(s_abs[Len(s_vals)])
         /\ s_done => s_vals = s_abs /\ s_head = Empty /\ s_node = <<>>

\* A traversal of a stack of MaxNodes elements, not all alike, has yielded
\* all of them and then None.
C5_Witness ==
    /\ file = "second" /\ s_pc \in {"iter", "iter_mut", "into_iter"}
    /\ s_done /\ Len(s_abs) = MaxNodes /\ s_abs[1] # s_abs[2]

\* C7: on a non-empty stack peek_mut returns a reference to the elem of the
\* head node; a write of v through it changes that elem alone, and the peek
\* and the pop that follow return v.
C7_PeekMut ==
    [][ file = "second" =>
          /\ (op' = "peek_mut" /\ s_head # Empty) =>
               s_ref' = s_head /\ s_refmut' /\ s_ret' = Top(Chain(s_head, s_node))
          /\ op' = "write" =>
               /\ Top(Chain(s_head', s_node')) = s_lastw'
               /\ Pop(Chain(s_head', s_node')) = Pop(Chain(s_head, s_node))
               /\ ChainNodes(s_head', s_node') = ChainNodes(s_head, s_node)
          /\ (s_lastw # None /\ op' \in {"peek", "peek_mut", "pop"}) =>
               s_ret' = s_lastw
      ]_vars

\* A pop has returned the value written over a different top element.
C7_Witness ==
    /\ file = "second" /\ op = "pop" /\ s_written
    /\ s_ret = Some(2) /\ s_abs = <<1>>
    /\ Len(s_vals) = 0

\* C9: once next has returned None on an IntoIter, an Iter or an IterMut,
\* every later next on it returns None.
C9_Exhausted ==
    [][ (file = "second" /\ s_done /\ op' = "next") =>
            s_ret' = None /\ s_done' ]_vars

\* A next after the one that returned None, on a list that had elements.
C9_Witness ==
    /\ file = "second" /\ s_again /\ op = "next" /\ s_ret = None
    /\ s_pc = "iter_mut" /\ s_abs # <<>>

\* The nodes a &mut Node gives access to: the node and what it owns.
Reach(l) == Range(ChainNodes(l, s_node))

\* C10: during a mutable traversal no node is reachable through two of the
\* mutable references in existence (those yielded, the cursor, and inside
\* next the taken node): no node is yielded twice, the cursor is None while
\* next holds the taken node, and the cursor never reaches a node already
\* yielded.
C10_OneMutRef ==
    (file = "second" /\ s_pc \in {"iter_mut", "iter_mut_map"}) =>
        /\ Distinct(s_refs)
        /\ Range(s_refs) \cap Reach(itermut_next) = {}
        /\ Range(s_refs) \cap Reach(s_taken) = {}
        /\ Reach(itermut_next) \cap Reach(s_taken) = {}
        /\ s_pc = "iter_mut_map" => itermut_next = Empty
        /\ s_pc = "iter_mut" => s_taken = Empty

\* Inside the second next: one node yielded, the next one taken.
C10_Witness ==
    /\ file = "second" /\ s_pc = "iter_mut_map"
    /\ Len(s_refs) = 1 /\ s_taken # Empty /\ s_node[s_taken].next # Empty

\* C2: when the last List that owns a chain is dropped, the releases of the
\* chain's nodes are made by a loop, so that the depth to which calls of
\* Rc::drop nest does not grow with the chain.  A loop keeps the depth at 1;
\* stated here with the most room the model can give it: the depth stays
\* below the length of the longest chain (MaxRcNodes).
C2_TeardownIterative ==
    file = "third" => Len(t_stack) < MaxRcNodes

\* The list after k calls of tail.
RECURSIVE TailK(_, _, _)
TailK(l, k, heap) ==
    IF k = 0 THEN l ELSE TailK(Third_tail(l, heap).head, k - 1, heap)

\* C3: for a list built to hold xs (the elements prepended, last one first),
\* head after k calls of tail is xs[k+1] for k < Len(xs) and None for
\* k = Len(xs); tail of an empty list is an empty list; head() returns the
\* first element of the list it is called on.
C3_HeadTail ==
    file = "third" =>
        /\ \A h \in Handles : Bound(h) =>
             \A k \in 0..(Len(t_abs[h]) + 1) :
                Third_head(TailK(t_list[h], k, t_node), t_node) =
                    IF k < Len(t_abs[h]) THEN Some(t_abs[h][k + 1]) ELSE None
        /\ op = "head" => t_ret = Top(t_abs[t_arg])

\* head() on the tail of the list built by prepending 2, then 1, has
\* returned 2.
C3_Witness ==
    /\ file = "third" /\ op = "head" /\ t_ret = Some(2)
    /\ t_abs[t_arg] = <<2>>
    /\ \E h \in Handles : t_abs[h] = <<1, 2>> /\ t_node[t_list[h]].next = t_list[t_arg]

\* Every node of the chain from l is allocated.
RECURSIVE ValidLink(_, _)
ValidLink(l, heap) ==
    l = Empty \/ (l \in DOMAIN heap /\ ValidLink(heap[l].next, heap))

\* The owners of node n: the lists whose head it is and the nodes whose
\* next it is.
Owners(n) ==
    Cardinality({h \in Handles : t_list[h] = n})
        + Cardinality({m \in DOMAIN t_node : t_node[m].next = n})

\* C4: prepend and tail leave every list in scope what it was, and the drop
\* of a list frees no node that a list still in scope reaches: the elements
\* seen from each list that stays in scope never change; between calls the
\* strong count of every node is the number of its owners, so a node is
\* freed only with its last owner.
C4_NonInterference ==
    /\ [](file = "third" /\ t_stack = <<>> =>
            \A n \in DOMAIN t_node :
                t_node[n].strong >= 1 /\ t_node[n].strong = Owners(n))
    /\ [][ file = "third" =>
             \A h \in Handles : (Bound(h) /\ t_list'[h] # Unbound) =>
                /\ t_list'[h] = t_list[h]
                /\ ValidLink(t_list'[h], t_node')
                /\ Chain(t_list'[h], t_node') = Chain(t_list[h], t_node)
         ]_vars

\* The drop of a list has freed that list's own head node and now reaches a
\* node that another list in scope has as its head.
C4_Witness ==
    /\ file = "third" /\ Len(t_stack) = 2
    /\ t_stack[1].pc = "dealloc" /\ t_stack[2].pc = "dec"
    /\ t_node[t_stack[2].node].strong = 2
    /\ \E h \in Handles : t_list[h] = t_stack[2].node

====
